---- MODULE Spec2Model ----
(***************************************************************************)
(* EukTrait Curator (src/app8.py; src/app7.py is the same program with     *)
(* other markup): the schema-driven record engine.                         *)
(*                                                                         *)
(* The host re-runs the whole script on every user interaction.  One step  *)
(* of the model is one such run: the interaction changes one input of the  *)
(* session state (or presses one button), then the script of the current   *)
(* page is evaluated from the top against the session state and the        *)
(* collections on disk.                                                    *)
(*                                                                         *)
(* Python values are tagged records, so that values of different Python    *)
(* types can be told apart the way Python's == tells them apart:           *)
(*   None   [t |-> "None"]            str   [t |-> "str",  s |-> "A"]      *)
(*   int    [t |-> "int", n |-> 0]    float [t |-> "float", n |-> 0]       *)
(*   (a float n stands for the Python float n.0)                           *)
(*   dict   [t |-> "dict", items |-> <<[k |-> name, v |-> value], ...>>]   *)
(*   list   [t |-> "list", elems |-> <<value, ...>>]                       *)
(* A dict keeps its insertion order (sort_keys=False when dumped).         *)
(***************************************************************************)
EXTENDS Integers, Sequences, FiniteSets, TLC

\* ------------------------------------------------------------------ bounds
\* Most entries a list_of_objects path is given in one session.
MaxEntries == 2
\* Most successful saves in one session.
MaxSaves == 1

\* ------------------------------------------------------------ Python values
None == [t |-> "None"]
VStr(s) == [t |-> "str", s |-> s]
VInt(n) == [t |-> "int", n |-> n]
VFloat(n) == [t |-> "float", n |-> n]
VDict(items) == [t |-> "dict", items |-> items]
VList(elems) == [t |-> "list", elems |-> elems]

\* The sentinel option of a reference choice and of the record selector.
NONE_OPTION == "- none -"
NEW_OPTION == "- new -"

\* Python truthiness (bool(v)).
Truthy(v) ==
    CASE v.t = "None" -> FALSE
      [] v.t = "str" -> v.s # ""
      [] v.t = "int" -> v.n # 0
      [] v.t = "float" -> v.n # 0
      [] v.t = "dict" -> v.items # <<>>
      [] v.t = "list" -> v.elems # <<>>

\* x or None
OrNone(v) == IF Truthy(v) THEN v ELSE None

\* dict keys, dict.get(k), k in dict, d[k] = v (insertion order kept)
Keys(d) == {d.items[i].k : i \in 1..Len(d.items)}
HasKey(d, k) == k \in Keys(d)
DictGet(d, k) ==
    IF HasKey(d, k)
    THEN LET i == CHOOSE j \in 1..Len(d.items) : d.items[j].k = k IN d.items[i].v
    ELSE None
DictSet(d, k, v) ==
    IF HasKey(d, k)
    THEN VDict([i \in 1..Len(d.items) |->
                 IF d.items[i].k = k THEN [k |-> k, v |-> v] ELSE d.items[i]])
    ELSE VDict(Append(d.items, [k |-> k, v |-> v]))

\* str(v) as used in f"{file_id}.yaml"
PyStr(v) ==
    CASE v.t = "str" -> v.s
      [] v.t = "int" -> ToString(v.n)
      [] v.t = "float" -> ToString(v.n) \o ".0"
      [] OTHER -> "?"

\* ------------------------------------------------------------- field specs
\* A field spec as the schema file gives it: either the shorthand, a bare
\* type name (a Python str, here [str |-> "string"]), or a mapping holding
\* the attributes the file states (a Python dict, here a record with exactly
\* those attributes).  fields is the ordered mapping name -> spec.
Shorthand(type) == [str |-> type]
IsStr(spec) == "str" \in DOMAIN spec
F(name, spec) == [name |-> name, spec |-> spec]

\* spec.get(attr, default) on a mapping
Get(spec, attr, default) == IF attr \in DOMAIN spec THEN spec[attr] ELSE default

normalize_spec(spec) ==
    IF IsStr(spec) THEN [value_type |-> spec.str] ELSE spec

\* ----------------------------------------------------------- the collections
DIRS == [Taxon |-> "taxa", Source |-> "sources", Material |-> "materials",
         Assertions |-> "assertions"]
Entities == {"Taxon", "Source", "Material"}

\* entity_name.lower() + "_id"
IdField(entity_name) ==
    CASE entity_name = "Taxon" -> "taxon_id"
      [] entity_name = "Source" -> "source_id"
      [] entity_name = "Material" -> "material_id"

\* The texts and numbers the model's user enters.
TextValues == {"", "Taxon_001"}
NumberValues == {0, 5}

\* The file stems the model can produce, in the order sorted() gives them.
StemOrder == <<"A", "Taxon_001">>

\* A path is [dir |-> directory, stem |-> file name without ".yaml"].
Path(dir, stem) == [dir |-> dir, stem |-> stem]

\* save_yaml: the file at path is created or overwritten with data.
save_yaml(fs, path, data) ==
    [p \in DOMAIN fs \cup {path} |-> IF p = path THEN data ELSE fs[p]]

\* list_yaml_ids: the sorted stems of the files of a directory.
list_yaml_ids(fs, dir) ==
    SelectSeq(StemOrder, LAMBDA s : Path(dir, s) \in DOMAIN fs)

\* load_vocab: an inline list is returned as it is; anything else that is
\* not the path of an existing file is the empty list (the model's ontology
\* holds no vocabulary files).
load_vocab(source) == IF source.t = "list" THEN source.elems ELSE <<>>

\* ------------------------------------------------- the inputs of the shell
\* A widget with a key reads the session state at that key; a key the user
\* never touched is not in the session state and the widget shows its
\* default: the empty text, the number 0 (0.0 without step=1), the first
\* option of a choice (None when there are no options).  Each call also
\* reports the input it put on the page: [key, kind, options].
Widget(key, kind, options) == [key |-> key, kind |-> kind, options |-> options]
Out(val, ss, widgets) == [val |-> val, ss |-> ss, widgets |-> widgets]

text_input(key, ss) ==
    Out(IF key \in DOMAIN ss THEN ss[key] ELSE VStr(""), ss,
        {Widget(key, "text", <<>>)})

number_input_int(key, ss) ==
    Out(IF key \in DOMAIN ss THEN ss[key] ELSE VInt(0), ss,
        {Widget(key, "int", <<>>)})

number_input_float(key, ss) ==
    Out(IF key \in DOMAIN ss THEN ss[key] ELSE VFloat(0), ss,
        {Widget(key, "float", <<>>)})

selectbox(key, options, ss) ==
    Out(IF key \in DOMAIN ss THEN ss[key]
        ELSE IF options = <<>> THEN None ELSE VStr(options[1]),
        ss, {Widget(key, "select", options)})

\* st.session_state.setdefault(key, [])
setdefault(ss, key) ==
    IF key \in DOMAIN ss THEN ss
    ELSE [k \in DOMAIN ss \cup {key} |-> IF k = key THEN VList(<<>>) ELSE ss[k]]

\* entries.append({}) on the list stored at key
append_entry(ss, key) ==
    [ss EXCEPT ![key] = VList(Append(ss[key].elems, VDict(<<>>)))]

\* val not in ("", None)
Keep(val) == ~(val.t = "None" \/ (val.t = "str" /\ val.s = ""))

\* a or b
PyOr(a, b) == IF Truthy(a) THEN a ELSE b

\* Only({e(r) : r \in {x}}) is e(x), with x evaluated once.
Only(S) == CHOOSE x \in S : TRUE

\* --------------------------------------------------- generic field renderer
\* render_field(name, spec, key_prefix) against the session state ss, in a
\* run where the button with key `clicked` was pressed ("" when none) and
\* the collections are fs.  The result holds the returned value, the session
\* state the call leaves and the inputs it put on the page.
RECURSIVE render_field(_, _, _, _, _, _)
RECURSIVE collect_fields(_, _, _, _, _, _, _)
RECURSIVE collect_entries(_, _, _, _, _, _, _)

\* for fname, fspec in fields.items(): val = render_field(fname, fspec, key);
\* if val not in ("", None): obj[fname] = val        (from the i-th field on)
collect_fields(fields, key, i, acc, ss, clicked, fs) ==
    IF i > Len(fields) THEN Out(acc.val, ss, acc.widgets)
    ELSE Only({collect_fields(fields, key, i + 1,
                [val |-> IF Keep(r.val) THEN DictSet(acc.val, fields[i].name, r.val)
                         ELSE acc.val,
                 widgets |-> acc.widgets \cup r.widgets],
                r.ss, clicked, fs) :
               r \in {render_field(fields[i].name, fields[i].spec, key, ss, clicked, fs)}})

\* for i in range(len(entries)): entry = {...}; if entry: results.append(entry)
\* (from entry i on; i counts from 0 as in the source)
collect_entries(fields, key, i, acc, ss, clicked, fs) ==
    IF i >= Len(ss[key].elems) THEN Out(acc.val, ss, acc.widgets)
    ELSE Only({collect_entries(fields, key, i + 1,
                [val |-> IF Truthy(r.val) THEN VList(Append(acc.val.elems, r.val))
                         ELSE acc.val,
                 widgets |-> acc.widgets \cup r.widgets],
                r.ss, clicked, fs) :
               r \in {collect_fields(fields, key \o "_" \o ToString(i), 1,
                          [val |-> VDict(<<>>), widgets |-> {}], ss, clicked, fs)}})

render_field(name, spec0, key_prefix, ss, clicked, fs) ==
    LET spec == normalize_spec(spec0)
        key == key_prefix \o "_" \o name
        vtype == Get(spec, "value_type", "string")
    IN CASE vtype = "string" -> text_input(key, ss)
         [] vtype = "integer" -> number_input_int(key, ss)
         [] vtype = "float" -> number_input_float(key, ss)
         [] vtype = "controlled_vocab" ->
              selectbox(key,
                  load_vocab(PyOr(Get(spec, "vocabulary_source", None),
                                  Get(spec, "vocabulary", None))), ss)
         [] vtype = "reference" ->
              IF Get(spec, "target", "") \in DOMAIN DIRS
              THEN selectbox(key,
                       <<NONE_OPTION>> \o list_yaml_ids(fs, DIRS[Get(spec, "target", "")]),
                       ss)
              ELSE text_input(key, ss)
         [] vtype = "object" ->
              Only({Out(OrNone(r.val), r.ss, r.widgets) :
                    r \in {collect_fields(Get(spec, "fields", <<>>), key, 1,
                              [val |-> VDict(<<>>), widgets |-> {}], ss, clicked, fs)}})
         [] vtype = "list_of_objects" ->
              LET ss1 == setdefault(ss, key)
                  ss2 == IF clicked = key \o "_add" THEN append_entry(ss1, key) ELSE ss1
              IN Only({Out(OrNone(r.val), r.ss,
                           r.widgets \cup {Widget(key \o "_add", "button", <<>>)}) :
                       r \in {collect_entries(Get(spec, "fields", <<>>), key, 0,
                                 [val |-> VList(<<>>), widgets |-> {}], ss2, clicked, fs)}})
         [] OTHER -> Out(None, ss, {})

\* The keys render_field uses for the fields from the i-th on, in the order of
\* the calls: key = f"{key_prefix}_{name}" for an input ("input"), the same
\* key for the entry list a list_of_objects field keeps in the session state
\* ("entries"), f"{key}_add" for its button ("button"), and the keys of the
\* children under key (an object) or under f"{key}_{i}" (the i-th entry).
RECURSIVE field_keys(_, _, _, _)
RECURSIVE entry_keys(_, _, _, _)
StoreKey(key, use) == [key |-> key, use |-> use]
field_keys(fields, key_prefix, i, ss) ==
    IF i > Len(fields) THEN <<>>
    ELSE LET spec == normalize_spec(fields[i].spec)
             key == key_prefix \o "_" \o fields[i].name
             vtype == Get(spec, "value_type", "string")
             children == Get(spec, "fields", <<>>)
             own == CASE vtype = "object" -> field_keys(children, key, 1, ss)
                      [] vtype = "list_of_objects" ->
                           <<StoreKey(key, "entries"),
                             StoreKey(key \o "_add", "button")>>
                             \o entry_keys(children, key, 0, ss)
                      [] vtype \in {"string", "integer", "float",
                                    "controlled_vocab", "reference"} ->
                           <<StoreKey(key, "input")>>
                      [] OTHER -> <<>>
         IN own \o field_keys(fields, key_prefix, i + 1, ss)
entry_keys(children, key, i, ss) ==
    IF key \notin DOMAIN ss \/ i >= Len(ss[key].elems) THEN <<>>
    ELSE field_keys(children, key \o "_" \o ToString(i), 1, ss)
           \o entry_keys(children, key, i + 1, ss)

\* The shell takes each key= once in a run: the second input or button
\* created with a key already used in the run raises DuplicateWidgetID.
raises_DuplicateWidgetID(keys) ==
    \E i, j \in 1..Len(keys) :
        /\ i < j
        /\ keys[i].use # "entries" /\ keys[j].use # "entries"
        /\ keys[i].key = keys[j].key

\* ------------------------------------------------------------- the ontology
\* The schema files the model is run against.  Source and Material are the
\* same in each; the Taxon schema is one of TaxonSchemas, chosen when the
\* session starts (a schema is loaded once and cached).
SString == [value_type |-> "string"]
SReqString == [value_type |-> "string", required |-> TRUE]

TaxonSchemas == <<
    \* 1: shorthand and optional text
    <<F("taxon_id", Shorthand("string")),
      F("notes", [value_type |-> "string", required |-> FALSE])>>,
    \* 2: numbers
    <<F("taxon_id", SReqString),
      F("count", [value_type |-> "integer", required |-> TRUE]),
      F("size", [value_type |-> "float", required |-> TRUE])>>,
    \* 3: choices
    <<F("taxon_id", SReqString),
      F("rank", [value_type |-> "controlled_vocab", required |-> TRUE,
                 vocabulary |-> VList(<<"species", "genus">>)]),
      F("status", [value_type |-> "controlled_vocab",
                   vocabulary_source |-> VStr("ontology/status.yaml")]),
      F("parent", [value_type |-> "reference", target |-> "Taxon",
                   required |-> TRUE]),
      F("cited", [value_type |-> "reference", target |-> "Paper",
                  required |-> TRUE])>>,
    \* 4: an object of text and a nested object
    <<F("taxon_id", SReqString),
      F("habitat", [value_type |-> "object", required |-> TRUE,
                    fields |-> <<F("place", SString),
                                 F("zone", [value_type |-> "object",
                                            fields |-> <<F("name", SString)>>])>>])>>,
    \* 5: an object of a number and a reference
    <<F("taxon_id", SReqString),
      F("cell", [value_type |-> "object", required |-> TRUE,
                 fields |-> <<F("length", [value_type |-> "integer"]),
                              F("source", [value_type |-> "reference",
                                           target |-> "Source"])>>])>>,
    \* 6: a list of text entries
    <<F("taxon_id", SReqString),
      F("synonyms", [value_type |-> "list_of_objects", required |-> TRUE,
                     fields |-> <<F("name", SString)>>])>>,
    \* 7: a list of entries holding a number inside an object
    <<F("taxon_id", SReqString),
      F("samples", [value_type |-> "list_of_objects", required |-> TRUE,
                    fields |-> <<F("site", [value_type |-> "object",
                                            fields |-> <<F("depth",
                                                [value_type |-> "float"])>>])>>])>>,
    \* 8: a list, and an object named as the list with "_0" after it
    <<F("taxon_id", SReqString),
      F("synonyms", [value_type |-> "list_of_objects",
                     fields |-> <<F("name", SString)>>]),
      F("synonyms_0", [value_type |-> "object",
                       fields |-> <<F("name", SString)>>])>>
>>

SourceSchema == <<F("source_id", SReqString)>>
MaterialSchema == <<F("material_id", SReqString)>>

\* load_schema(schema_path)[entity_name], for the k-th set of schema files
load_schema(k, entity_name) ==
    [fields |-> CASE entity_name = "Taxon" -> TaxonSchemas[k]
                  [] entity_name = "Source" -> SourceSchema
                  [] entity_name = "Material" -> MaterialSchema]

\* The sub-directories of data/assertions, sorted.
Domains == <<"morphology">>
\* load_traits(domain), load_features(domain), load_qualifiers()
load_traits(domain) ==
    <<[trait_id |-> "shape", value_type |-> "categorical",
       vocabulary |-> VList(<<"round">>)]>>
load_features(domain) == <<"cell">>
QUALIFIERS == <<[name |-> "certainty", vocab |-> <<"high">>],
               [name |-> "method", vocab |-> <<"lm">>]>>

\* The records on disk when the session starts.
InitialFiles ==
    LET t == Path("taxa", "Taxon_001")
        s == Path("sources", "A")
    IN [p \in {t, s} |->
          IF p = t THEN VDict(<<[k |-> "taxon_id", v |-> VStr("Taxon_001")]>>)
          ELSE VDict(<<[k |-> "source_id", v |-> VStr("A")]>>)]

\* ------------------------------------------------------------------- state
VARIABLES
    schema_set,     \* which set of schema files the deployment holds
    PAGE,           \* the sidebar's choice
    session_state,  \* key -> value: the inputs the user touched, and the
                    \* entry list of every list_of_objects path
    files,          \* path -> record: the four collections on disk
    page_widgets,   \* the inputs the last run put on the page
    result,         \* what the last run of the script ended with
    saves           \* successful saves so far

vars == <<schema_set, PAGE, session_state, files, page_widgets, result, saves>>

Pages == {"Taxa", "Sources", "Materials", "Assertions"}

\* What a run of the script ends with: kind is "form" (the entry form is
\* shown), "view" (an existing record is shown), or what the pressed save
\* button led to: "saved", or the failure.
Result(kind, payload, missing, path) ==
    [kind |-> kind, payload |-> payload, missing |-> missing, path |-> path]
NoPath == Path("", "")
Run(ss, fs, widgets, res) == [ss |-> ss, fs |-> fs, widgets |-> widgets, res |-> res]

\* -------------------------------------------------------------- entity tabs
SaveLabel(entity_name) == "Save " \o entity_name

\* [f for f, s in schema["fields"].items() if s.get("required") and f not in payload]
missing_required(fields, payload) ==
    LET miss == SelectSeq(fields, LAMBDA f :
                    Get(f.spec, "required", FALSE) /\ ~HasKey(payload, f.name))
    IN [i \in 1..Len(miss) |-> miss[i].name]

\* s.get on a spec given in shorthand: 'str' object has no attribute 'get'
raises_AttributeError(fields) == \E i \in 1..Len(fields) : IsStr(fields[i].spec)

\* (a variant that writes the file before it checks the required fields)
save_entity_write_first(entity_name, fields, payload, fs) ==
    LET directory == DIRS[entity_name]
        file_id == DictGet(payload, IdField(entity_name))
        path == Path(directory, PyStr(file_id))
        written == save_yaml(fs, path, payload)
    IN IF raises_AttributeError(fields)
       THEN [fs |-> fs, res |-> Result("AttributeError", payload, <<>>, NoPath)]
       ELSE IF ~Truthy(file_id)
       THEN [fs |-> fs, res |-> Result("MissingIdentifier", payload, <<>>, NoPath)]
       ELSE IF missing_required(fields, payload) # <<>>
       THEN [fs |-> written,
             res |-> Result("MissingRequiredFields", payload,
                            missing_required(fields, payload), NoPath)]
       ELSE [fs |-> written, res |-> Result("saved", payload, <<>>, path)]

\* if st.button(f"Save {entity_name}"): ...   the files and the result the
\* pressed save button leaves, for the payload the form assembled
save_entity(entity_name, fields, payload, fs) ==
    LET directory == DIRS[entity_name]
        file_id == DictGet(payload, IdField(entity_name))
        path == Path(directory, PyStr(file_id))
    IN IF raises_AttributeError(fields)
       THEN [fs |-> fs, res |-> Result("AttributeError", payload, <<>>, NoPath)]
       ELSE IF missing_required(fields, payload) # <<>>
       THEN [fs |-> fs,
             res |-> Result("MissingRequiredFields", payload,
                            missing_required(fields, payload), NoPath)]
       ELSE IF ~Truthy(file_id)
       THEN [fs |-> fs, res |-> Result("MissingIdentifier", payload, <<>>, NoPath)]
       ELSE [fs |-> save_yaml(fs, path, payload),
             res |-> Result("saved", payload, <<>>, path)]

\* A run in which the shell raises DuplicateWidgetID ends at that input: the
\* save button is not reached.  In the schemas above a key is used a second
\* time only by the last input of the form, so all other inputs are on the
\* page and every entry list is stored when the run ends.
entity_tab(entity_name, k, ss, fs, clicked) ==
    LET directory == DIRS[entity_name]
        schema == load_schema(k, entity_name)
        ids == list_yaml_ids(fs, directory)
        selected == selectbox(entity_name \o "_select", <<NEW_OPTION>> \o ids, ss)
    IN IF selected.val # VStr(NEW_OPTION)
       THEN Run(ss, fs, selected.widgets,
                Result("view", fs[Path(directory, selected.val.s)], <<>>, NoPath))
       ELSE Only({
            LET payload == r.val
                shown == selected.widgets \cup r.widgets
                widgets == shown \cup {Widget(SaveLabel(entity_name), "button", <<>>)}
            IN IF raises_DuplicateWidgetID(
                      field_keys(schema.fields, entity_name, 1, r.ss))
               THEN Run(r.ss, fs, shown,
                        Result("DuplicateWidgetID", None, <<>>, NoPath))
               ELSE IF clicked # SaveLabel(entity_name)
               THEN Run(r.ss, fs, widgets, Result("form", payload, <<>>, NoPath))
               ELSE Only({Run(r.ss, o.fs, widgets, o.res) :
                          o \in {save_entity(entity_name, schema.fields, payload, fs)}})
            : r \in {collect_fields(schema.fields, entity_name, 1,
                         [val |-> VDict(<<>>), widgets |-> {}], ss, clicked, fs)}})

\* ---------------------------------------------------------- assertions tab
\* The inputs of this tab are given no key: the shell keeps each under an
\* identifier of its own, written here "#" and the input's label.
multiselect(key, options, ss) ==
    Out(IF key \in DOMAIN ss THEN ss[key] ELSE VList(<<>>), ss,
        {Widget(key, "multi", options)})

AssertionSaveLabel == "Save assertion file"

\* for q, vocab in QUALIFIERS.items(): sel = st.multiselect(q, vocab);
\* if sel: qualifiers[q] = sel                      (from the i-th one on)
RECURSIVE collect_qualifiers(_, _, _)
collect_qualifiers(i, acc, ss) ==
    IF i > Len(QUALIFIERS) THEN acc
    ELSE LET sel == multiselect("#" \o QUALIFIERS[i].name, QUALIFIERS[i].vocab, ss)
         IN collect_qualifiers(i + 1,
                [val |-> IF Truthy(sel.val)
                         THEN DictSet(acc.val, QUALIFIERS[i].name, sel.val)
                         ELSE acc.val,
                 widgets |-> acc.widgets \cup sel.widgets],
                ss)

\* (a variant that forgets source_id)
cross_reference_missing_taxon_only(taxon_id, source_id) ==
    taxon_id = VStr(NONE_OPTION)

\* if taxon_id == "- none -" or source_id == "- none -"
cross_reference_missing(taxon_id, source_id) ==
    taxon_id = VStr(NONE_OPTION) \/ source_id = VStr(NONE_OPTION)

assertions_tab(ss, fs, clicked) ==
    LET domain == selectbox("#Domain", Domains, ss)
        traits == load_traits(domain.val.s)
        features == load_features(domain.val.s)
        taxon_id == selectbox("#taxon_id *",
                        <<NONE_OPTION>> \o list_yaml_ids(fs, DIRS["Taxon"]), ss)
        source_id == selectbox("#source_id *",
                        <<NONE_OPTION>> \o list_yaml_ids(fs, DIRS["Source"]), ss)
        material_id == selectbox("#material_id (optional)",
                        <<NONE_OPTION>> \o list_yaml_ids(fs, DIRS["Material"]), ss)
        feature == selectbox("#feature *", features, ss)
        trait_id == selectbox("#trait *",
                        [i \in 1..Len(traits) |-> traits[i].trait_id], ss)
        trait == traits[CHOOSE i \in 1..Len(traits) :
                            traits[i].trait_id = trait_id.val.s]
        vtype == Get(trait, "value_type", "string")
        value == CASE vtype = "categorical" ->
                        selectbox("#value categorical",
                                  load_vocab(Get(trait, "vocabulary", None)), ss)
                   [] vtype = "integer" -> number_input_int("#value integer", ss)
                   [] vtype = "float" -> number_input_float("#value float", ss)
                   [] OTHER -> text_input("#value text", ss)
        q == collect_qualifiers(1, [val |-> VDict(<<>>), widgets |-> {}], ss)
        qualifiers == q.val
        widgets == domain.widgets \cup taxon_id.widgets \cup source_id.widgets
                     \cup material_id.widgets \cup feature.widgets
                     \cup trait_id.widgets \cup value.widgets \cup q.widgets
                     \cup {Widget(AssertionSaveLabel, "button", <<>>)}
        assertion == VDict(<<[k |-> "feature", v |-> feature.val],
                             [k |-> "trait", v |-> trait_id.val],
                             [k |-> "value", v |-> value.val],
                             [k |-> "qualifiers", v |-> OrNone(qualifiers)]>>)
        aset0 == VDict(<<[k |-> "source_id", v |-> source_id.val],
                         [k |-> "assertions", v |-> VList(<<assertion>>)]>>)
        aset == IF material_id.val # VStr(NONE_OPTION)
                THEN DictSet(aset0, "material_id", material_id.val)
                ELSE aset0
        payload == VDict(<<[k |-> "taxon_id", v |-> taxon_id.val],
                           [k |-> "assertion_sets", v |-> VList(<<aset>>)]>>)
        path == Path(DIRS["Assertions"] \o "/" \o domain.val.s, PyStr(taxon_id.val))
    IN IF clicked # AssertionSaveLabel
       THEN Run(ss, fs, widgets, Result("form", None, <<>>, NoPath))
       ELSE IF cross_reference_missing(taxon_id.val, source_id.val)
       THEN Run(ss, fs, widgets,
                Result("MissingCrossReference", None, <<>>, NoPath))
       ELSE Run(ss, save_yaml(fs, path, payload), widgets,
                Result("saved", payload, <<>>, path))

\* ---------------------------------------------------------- sidebar / router
EntityOf(page) ==
    CASE page = "Taxa" -> "Taxon"
      [] page = "Sources" -> "Source"
      [] page = "Materials" -> "Material"

\* One run of the whole script.
Script(page, k, ss, fs, clicked) ==
    IF page = "Assertions" THEN assertions_tab(ss, fs, clicked)
    ELSE entity_tab(EntityOf(page), k, ss, fs, clicked)

\* When a run ends the shell drops the state of every input the previous
\* run showed and this run did not; what the script itself stored with
\* setdefault stays.
WidgetKeys(widgets) == {w.key : w \in widgets}
Cleanup(ss, shown_before, shown_now) ==
    LET keep == DOMAIN ss \ (WidgetKeys(shown_before) \ WidgetKeys(shown_now))
    IN [k \in keep |-> ss[k]]

\* The state after the script has run on page with the session state ss and
\* the button `clicked` pressed.
Rerun(page, ss, clicked) ==
    \E run \in {Script(page, schema_set, ss, files, clicked)} :
       /\ PAGE' = page
       /\ session_state' = Cleanup(run.ss, page_widgets, run.widgets)
       /\ files' = run.fs
       /\ page_widgets' = run.widgets
       /\ result' = run.res
       /\ saves' = IF run.res.kind = "saved" THEN saves + 1 ELSE saves
       /\ UNCHANGED schema_set

\* The value the input with this key shows.
Shown(w) ==
    IF w.key \in DOMAIN session_state THEN session_state[w.key]
    ELSE CASE w.kind = "text" -> VStr("")
           [] w.kind = "int" -> VInt(0)
           [] w.kind = "float" -> VFloat(0)
           [] w.kind = "select" ->
                IF w.options = <<>> THEN None ELSE VStr(w.options[1])
           [] w.kind = "multi" -> VList(<<>>)
           [] OTHER -> None
Put(ss, key, v) == [k \in DOMAIN ss \cup {key} |-> IF k = key THEN v ELSE ss[k]]

Started == result.kind # "start"


\* The session is created: nothing is stored and the script has not run.
Init ==
    /\ schema_set \in 1..Len(TaxonSchemas)
    /\ PAGE = "Taxa"
    /\ session_state = <<>>
    /\ files = InitialFiles
    /\ page_widgets = {}
    /\ result = Result("start", None, <<>>, NoPath)
    /\ saves = 0

\* The script runs with no user action (the first load of the page, or a
\* re-run the shell asks for).
Reevaluate == Rerun(PAGE, session_state, "")

\* The user picks another page in the sidebar.
Navigate ==
    /\ Started
    /\ \E p \in Pages \ {PAGE} : Rerun(p, session_state, "")

\* An interaction is a change: an input set to the value it already shows
\* starts no run.

\* The user types into a text input.
TypeText ==
    /\ Started
    /\ \E w \in page_widgets, s \in TextValues :
         /\ w.kind = "text"
         /\ Shown(w) # VStr(s)
         /\ Rerun(PAGE, Put(session_state, w.key, VStr(s)), "")

\* The user sets a number input.
TypeNumber ==
    /\ Started
    /\ \E w \in page_widgets, n \in NumberValues :
         /\ w.kind \in {"int", "float"}
         /\ Shown(w).n # n
         /\ Rerun(PAGE, Put(session_state, w.key,
                            IF w.kind = "int" THEN VInt(n) ELSE VFloat(n)), "")

\* The user picks an option of a choice (also the record selector of an
\* entity tab: picking an existing record shows it).
Choose ==
    /\ Started
    /\ \E w \in page_widgets :
         /\ w.kind = "select"
         /\ \E i \in 1..Len(w.options) :
              /\ Shown(w) # VStr(w.options[i])
              /\ Rerun(PAGE, Put(session_state, w.key, VStr(w.options[i])), "")

\* The user selects or unselects one value of a qualifier.
Toggle ==
    /\ Started
    /\ \E w \in page_widgets :
         /\ w.kind = "multi"
         /\ \E i \in 1..Len(w.options) :
              LET cur == IF w.key \in DOMAIN session_state
                         THEN session_state[w.key].elems ELSE <<>>
                  new == IF \E j \in 1..Len(cur) : cur[j] = w.options[i]
                         THEN SelectSeq(cur, LAMBDA x : x # w.options[i])
                         ELSE Append(cur, w.options[i])
              IN Rerun(PAGE, Put(session_state, w.key, VList(new)), "")

\* The user presses "+ Add <name>" of a list_of_objects field.
AddEntry ==
    /\ Started
    /\ \E w \in page_widgets :
         /\ w.kind = "button"
         /\ w.key \notin {SaveLabel(e) : e \in Entities} \cup {AssertionSaveLabel}
         /\ \E lk \in DOMAIN session_state :
              /\ w.key = lk \o "_add"
              /\ session_state[lk].t = "list"
              /\ Len(session_state[lk].elems) < MaxEntries
         /\ Rerun(PAGE, session_state, w.key)

\* The user presses the save button of the page.
Save ==
    /\ Started
    /\ saves < MaxSaves
    /\ \E w \in page_widgets :
         /\ w.kind = "button"
         /\ w.key \in {SaveLabel(e) : e \in Entities} \cup {AssertionSaveLabel}
         /\ Rerun(PAGE, session_state, w.key)

Next ==
    \/ Reevaluate
    \/ Navigate
    \/ TypeText
    \/ TypeNumber
    \/ Choose
    \/ Toggle
    \/ AddEntry
    \/ Save

Spec == Init /\ [][Next]_vars

\* ================================================================== claims
\* What the claims speak of, read off the state.

\* The entry form of an entity tab was rendered by the last run.
EntitySaveKinds ==
    {"saved", "MissingRequiredFields", "MissingIdentifier", "AttributeError"}
FormShown == PAGE # "Assertions" /\ result.kind \in {"form"} \cup EntitySaveKinds
\* The save button of an entity tab was pressed in the last run.
EntitySavePressed == PAGE # "Assertions" /\ result.kind \in EntitySaveKinds
CurEntity == EntityOf(PAGE)
CurFields == load_schema(schema_set, CurEntity).fields

KeyOf(prefix, name) == prefix \o "_" \o name
EntryPrefix(key, i) == key \o "_" \o ToString(i)
\* The entry count of the list path with this key.
EntryCount(key) ==
    IF key \in DOMAIN session_state THEN Len(session_state[key].elems) ELSE 0
Untouched(key) == key \notin DOMAIN session_state
KnownTarget(spec) == Get(spec, "target", "") \in DOMAIN DIRS

\* The user supplied no value for the field: empty text, an untouched number
\* or choice, the "none" option of a reference, no child and no entry with a
\* value.
RECURSIVE NoValue(_, _, _)
RECURSIVE AllNoValue(_, _)
NoValue(name, spec0, prefix) ==
    LET spec == normalize_spec(spec0)
        key == KeyOf(prefix, name)
        vtype == Get(spec, "value_type", "string")
        children == Get(spec, "fields", <<>>)
    IN CASE vtype \in {"integer", "float", "controlled_vocab"} -> Untouched(key)
         [] vtype = "reference" /\ KnownTarget(spec) ->
              Untouched(key) \/ session_state[key] = VStr(NONE_OPTION)
         [] vtype = "object" -> AllNoValue(children, key)
         [] vtype = "list_of_objects" ->
              \A i \in 0..(EntryCount(key) - 1) :
                  AllNoValue(children, EntryPrefix(key, i))
         [] OTHER -> Untouched(key) \/ session_state[key] = VStr("")
AllNoValue(fields, prefix) ==
    \A i \in 1..Len(fields) : NoValue(fields[i].name, fields[i].spec, prefix)

\* Every position of the form, at any depth: <<[name, spec, prefix], ...>>.
RECURSIVE PositionsFrom(_, _, _)
RECURSIVE EntryPositionsFrom(_, _, _)
PositionsFrom(fields, prefix, i) ==
    IF i > Len(fields) THEN <<>>
    ELSE LET spec == normalize_spec(fields[i].spec)
             key == KeyOf(prefix, fields[i].name)
             vtype == Get(spec, "value_type", "string")
             children == Get(spec, "fields", <<>>)
             below == CASE vtype = "object" -> PositionsFrom(children, key, 1)
                        [] vtype = "list_of_objects" ->
                             EntryPositionsFrom(children, key, 0)
                        [] OTHER -> <<>>
         IN <<[name |-> fields[i].name, spec |-> spec, prefix |-> prefix]>>
              \o below \o PositionsFrom(fields, prefix, i + 1)
EntryPositionsFrom(children, key, j) ==
    IF j >= EntryCount(key) THEN <<>>
    ELSE PositionsFrom(children, EntryPrefix(key, j), 1)
           \o EntryPositionsFrom(children, key, j + 1)
Positions == PositionsFrom(CurFields, CurEntity, 1)
TypeAt(p) == Get(p.spec, "value_type", "string")

\* interpret: what render_field yields at a position of the form against the
\* session state, with no button pressed; a value that passes
\* `val not in ("", None)` is put into the enclosing record, any other is
\* omitted.
Interpret(p) == render_field(p.name, p.spec, p.prefix, session_state, "", files).val
Omitted(v) == ~Keep(v)

\* C1: Entity save, required-field check.  When the save button of an entity
\* tab is pressed and some required top-level field (of any value type) has
\* no value from the user, the save fails with MissingRequiredFields and the
\* reported list is exactly the required fields without a value, in schema
\* order.
RequiredUnfilled ==
    LET un == SelectSeq(CurFields, LAMBDA f :
                  /\ Get(normalize_spec(f.spec), "required", FALSE)
                  /\ NoValue(f.name, f.spec, CurEntity))
    IN [i \in 1..Len(un) |-> un[i].name]
C1_RequiredFieldCheck ==
    EntitySavePressed =>
        IF RequiredUnfilled # <<>>
        THEN result.kind = "MissingRequiredFields" /\ result.missing = RequiredUnfilled
        ELSE result.kind # "MissingRequiredFields"

\* C2: Entity save, success path with shorthand specs.  With the Taxon schema
\* {taxon_id: "string", notes: {value_type: string, required: false}}, the
\* input taxon_id = "Taxon_001" and notes empty, pressing Save ends without
\* error, the record is exactly {taxon_id: "Taxon_001"} and it is the file
\* taxa/Taxon_001; and every successful entity save leaves the assembled
\* record at <collection>/<value of the id field>.
Taxon_001_Only == VDict(<<[k |-> "taxon_id", v |-> VStr("Taxon_001")]>>)
C2_Scenario ==
    /\ schema_set = 1
    /\ PAGE = "Taxa"
    /\ EntitySavePressed
    /\ ~Untouched("Taxon_taxon_id")
    /\ session_state["Taxon_taxon_id"] = VStr("Taxon_001")
    /\ NoValue("notes", CurFields[2].spec, "Taxon")
C2_ShorthandSaveSucceeds ==
    /\ C2_Scenario =>
         /\ result.kind = "saved"
         /\ result.payload = Taxon_001_Only
         /\ Path("taxa", "Taxon_001") \in DOMAIN files
         /\ files[Path("taxa", "Taxon_001")] = Taxon_001_Only
    /\ (PAGE # "Assertions" /\ result.kind = "saved") =>
         /\ result.path = Path(DIRS[CurEntity],
                               PyStr(DictGet(result.payload, IdField(CurEntity))))
         /\ result.path \in DOMAIN files
         /\ files[result.path] = result.payload

\* C3: Field Interpreter, numeric fields.  For every integer or float field
\* of the form, at any depth, that the user never filled in, interpret
\* yields omitted (never the value zero).
C3_UntouchedNumberOmitted ==
    FormShown =>
        \A i \in 1..Len(Positions) :
            LET p == Positions[i]
            IN (TypeAt(p) \in {"integer", "float"} /\ Untouched(KeyOf(p.prefix, p.name)))
                 => Omitted(Interpret(p))

\* C4: Field Interpreter, object fields.  For every object field of the form,
\* whatever the types of its children, when the user supplied no input for
\* any child the object is omitted (interpret returns None, not a mapping).
C4_EmptyObjectOmitted ==
    FormShown =>
        \A i \in 1..Len(Positions) :
            LET p == Positions[i]
            IN (/\ TypeAt(p) = "object"
                /\ AllNoValue(Get(p.spec, "fields", <<>>), KeyOf(p.prefix, p.name)))
                 => Interpret(p) = None

\* C5: Field Interpreter, list_of_objects fields.  For every list path of the
\* form the emitted entries are, in index order, the entries for which the
\* user supplied some input: their number is the entry count minus the
\* number of entries without input, and the field is omitted when there are
\* none.  (The entry count itself starts at zero and grows by one with each
\* "add entry"; that part is C5_EntryCountSteps.)
EntryAt(p, j) ==
    collect_fields(Get(p.spec, "fields", <<>>),
                   EntryPrefix(KeyOf(p.prefix, p.name), j), 1,
                   [val |-> VDict(<<>>), widgets |-> {}],
                   session_state, "", files).val
FilledEntries(p) ==
    LET key == KeyOf(p.prefix, p.name)
        n == EntryCount(key)
        idx == SelectSeq([j \in 1..n |-> j - 1], LAMBDA j :
                   ~AllNoValue(Get(p.spec, "fields", <<>>), EntryPrefix(key, j)))
    IN [x \in 1..Len(idx) |-> EntryAt(p, idx[x])]
C5_ListEntriesEmitted ==
    FormShown =>
        \A i \in 1..Len(Positions) :
            LET p == Positions[i]
            IN TypeAt(p) = "list_of_objects" =>
                 IF FilledEntries(p) = <<>> THEN Interpret(p) = None
                 ELSE Interpret(p) = VList(FilledEntries(p))
QualifierKeys == {"#" \o QUALIFIERS[i].name : i \in 1..Len(QUALIFIERS)}
IsEntryList(ss, key) ==
    key \in DOMAIN ss /\ key \notin QualifierKeys /\ ss[key].t = "list"
C5_EntryCountSteps ==
    [][/\ \A key \in DOMAIN session_state :
            IsEntryList(session_state, key) =>
                /\ IsEntryList(session_state', key)
                /\ Len(session_state'[key].elems) - Len(session_state[key].elems)
                     \in {0, 1}
       /\ \A key \in DOMAIN session_state' \ DOMAIN session_state :
            IsEntryList(session_state', key) => session_state'[key].elems = <<>>]_vars

\* What the choice with this key shows on the assertions tab.
Sel(ss, key) == IF key \in DOMAIN ss THEN ss[key] ELSE VStr(NONE_OPTION)
AssertionSaveKinds == {"saved", "MissingCrossReference"}

\* C6: Assertion Composer save.  Whenever the save button of the assertions
\* tab is pressed while taxon_id or source_id shows the "none" option, the
\* save fails with MissingCrossReference and no file of any collection is
\* created or changed, whatever the other selections are.
C6_MissingCrossReference ==
    [][(/\ PAGE' = "Assertions"
        /\ result'.kind \in AssertionSaveKinds
        /\ \/ Sel(session_state', "#taxon_id *") = VStr(NONE_OPTION)
           \/ Sel(session_state', "#source_id *") = VStr(NONE_OPTION))
       => (result'.kind = "MissingCrossReference" /\ files' = files)]_vars
\* A save was refused although a taxon was chosen: only source_id is missing,
\* and other selections (a qualifier) were made.
C6_Witness ==
    /\ PAGE = "Assertions"
    /\ result.kind = "MissingCrossReference"
    /\ Sel(session_state, "#taxon_id *") # VStr(NONE_OPTION)
    /\ Sel(session_state, "#source_id *") = VStr(NONE_OPTION)
    /\ \E q \in QualifierKeys :
         q \in DOMAIN session_state /\ session_state[q].elems # <<>>

\* C7: Assertion Composer qualifiers.  In the assertion record a successful
\* save writes, the qualifiers mapping holds exactly the qualifier names with
\* at least one selected value, and when no qualifier has a selection the
\* assertion entry has no "qualifiers" key at all.
SelectedQualifiers ==
    {QUALIFIERS[i].name : i \in {j \in 1..Len(QUALIFIERS) :
        /\ ("#" \o QUALIFIERS[j].name) \in DOMAIN session_state
        /\ session_state["#" \o QUALIFIERS[j].name].elems # <<>>}}
WrittenAssertion ==
    DictGet(DictGet(files[result.path], "assertion_sets").elems[1],
            "assertions").elems[1]
C7_QualifiersWritten ==
    (PAGE = "Assertions" /\ result.kind = "saved") =>
        IF SelectedQualifiers = {}
        THEN ~HasKey(WrittenAssertion, "qualifiers")
        ELSE /\ HasKey(WrittenAssertion, "qualifiers")
             /\ DictGet(WrittenAssertion, "qualifiers").t = "dict"
             /\ Keys(DictGet(WrittenAssertion, "qualifiers")) = SelectedQualifiers
             /\ \A q \in SelectedQualifiers :
                  DictGet(DictGet(WrittenAssertion, "qualifiers"), q)
                    = session_state["#" \o q]

\* C8: Entity records, referential integrity.  In every record an entity save
\* writes, each present reference field with a known target holds, at any
\* depth, an identifier that was in the target collection when the save was
\* made, and never the "none" option.
RECURSIVE RefsResolve(_, _, _)
RefsResolve(fields, dict, fs) ==
    \A i \in 1..Len(fields) :
        LET spec == normalize_spec(fields[i].spec)
            vtype == Get(spec, "value_type", "string")
            children == Get(spec, "fields", <<>>)
            v == DictGet(dict, fields[i].name)
        IN HasKey(dict, fields[i].name) =>
             CASE vtype = "reference" /\ KnownTarget(spec) ->
                    /\ v.t = "str"
                    /\ v.s # NONE_OPTION
                    /\ \E j \in 1..Len(list_yaml_ids(fs, DIRS[spec.target])) :
                          list_yaml_ids(fs, DIRS[spec.target])[j] = v.s
               [] vtype = "object" -> RefsResolve(children, v, fs)
               [] vtype = "list_of_objects" ->
                    \A j \in 1..Len(v.elems) : RefsResolve(children, v.elems[j], fs)
               [] OTHER -> TRUE
C8_ReferencesResolve ==
    [][(PAGE' # "Assertions" /\ result'.kind = "saved")
       => RefsResolve(load_schema(schema_set, EntityOf(PAGE')).fields,
                      result'.payload, files)]_vars

\* C9: No write before a successful save.  Over any sequence of interactions
\* the collections change only in a step whose save passes validation, and
\* that step creates or overwrites exactly one file; a save that fails with
\* MissingRequiredFields, MissingIdentifier or MissingCrossReference leaves
\* every collection and the session state (input values, entry counts) as
\* they were.
FailedSaveKinds ==
    {"MissingRequiredFields", "MissingIdentifier", "MissingCrossReference"}
C9_NoWriteBeforeSave ==
    [][/\ files' # files =>
            /\ result'.kind = "saved"
            /\ result'.path \in DOMAIN files'
            /\ \A p \in DOMAIN files : p \in DOMAIN files'
            /\ \A p \in DOMAIN files' \ {result'.path} :
                 p \in DOMAIN files /\ files'[p] = files[p]
       /\ result'.kind = "saved" =>
            files' = save_yaml(files, result'.path, result'.payload)
       /\ result'.kind \in FailedSaveKinds =>
            files' = files /\ session_state' = session_state]_vars
\* A save was refused while the form held input and entries.
C9_Witness ==
    /\ result.kind \in {"MissingRequiredFields", "MissingIdentifier"}
    /\ \E key \in DOMAIN session_state :
         IsEntryList(session_state, key) /\ session_state[key].elems # <<>>
    /\ \E key \in DOMAIN session_state :
         session_state[key].t = "str" /\ session_state[key].s # ""

\* C10: Re-evaluation is side-effect-free.  For every state of the session,
\* running the script with no user action leaves the session state exactly
\* as it was, its set of keys and every entry count included.
C10_ReevaluationLeavesStore ==
    Script(PAGE, schema_set, session_state, files, "").ss = session_state

\* C11: State-store keys are unique per field position.  Within one
\* evaluation of the entry form of an entity schema, the keys given to the
\* inputs at distinct positions of the schema tree, to each list's entry list
\* and to each list's add-entry button are pairwise distinct, whatever the
\* field names are (names with '_', names ending in digits or in 'add'
\* included), so no run is refused by the shell for a key used twice and no
\* input shares its state with another.
FormKeys == field_keys(CurFields, CurEntity, 1, session_state)
FormEvaluated == Started /\ PAGE # "Assertions" /\ result.kind # "view"
C11_KeysUniquePerPosition ==
    FormEvaluated =>
        /\ \A i, j \in 1..Len(FormKeys) :
               i # j => FormKeys[i].key # FormKeys[j].key
        /\ result.kind # "DuplicateWidgetID"

====
